---- MODULE Spec2Model ----
(***************************************************************************)
(* Clock/reset topology of _CRG and the transceiver/packet-core wiring of  *)
(* BaseSoC._add_aurora (ted_tfoil.py).                                     *)
(*                                                                         *)
(* Three groups of state:                                                  *)
(*   - the run-time reset network of _CRG (specifications Spec and        *)
(*     LiveSpec): PLL lock, the reset synchronizers, the delay-calibration  *)
(*     controller that sequences cd_sys.rst, the transceiver lock gating;  *)
(*   - the elaboration of _CRG.__init__ and the clock edges it produces    *)
(*     (specification SpecClk);                                            *)
(*   - the elaboration of _add_aurora and the stream beats that cross the  *)
(*     bindings it makes (specification SpecLink).                         *)
(*                                                                         *)
(* Combinational signals (self.comb) are state variables that every action *)
(* re-evaluates before it ends, so a state is always a settled netlist.    *)
(* Library primitives instantiated by the file (AsyncResetSynchronizer,    *)
(* USMMCM.create_clkout, USIDELAYCTRL, Record.connect) are modelled by the *)
(* behaviour of the migen/LiteX primitive that the cited line instantiates.*)
(***************************************************************************)
EXTENDS Integers, Sequences, FiniteSets, TLC

VARIABLES
    \* ---- run-time reset network (_CRG) ----
    cpu_resetn,        \* platform.request("cpu_resetn"): active-low external reset
    rst,               \* _CRG.rst: soft reset request
    pll_locked,        \* pll.locked (USMMCM output)
    pll_reset,         \* pll.reset (comb)
    locked,            \* _CRG.locked (comb)
    ars,               \* flops of each AsyncResetSynchronizer: domain -> <<meta, rst>>
    ic_reset_counter,  \* USIDELAYCTRL: counter in cd_idelay
    ic_reset,          \* USIDELAYCTRL: IDELAYCTRL reset, register in cd_idelay
    ic_ready,          \* IDELAYCTRL.RDY
    ic_ready_counter,  \* USIDELAYCTRL: counter in cd_ic (clocked by cd_sys.clk)
    sys_rst,           \* cd_sys.rst, register in cd_ic
    div_cnt,           \* BUFGCE_DIV main_bufgce_div: input edges since the last output edge
    clk,               \* parity of the edges seen so far on each clock: domain -> 0..1
    init_clk_locked,   \* kyokko.init_clk_locked (comb)
    kyokko_state,      \* link-initialization state machine of Aurora64b66b
    \* ---- elaboration of _CRG and edge counting ----
    crg_pc,            \* position in _CRG.__init__
    sys_clk_freq,      \* sys_clk_freq argument (Hz)
    clk_freq,          \* requested/derived frequency of each clock domain (0: not yet set)
    rst_drivers,       \* domain -> set of drivers of its rst signal
    edges,             \* domain -> number of clock edges produced
    div_phase0,        \* phase of the divider when edge counting starts
    \* ---- elaboration of _add_aurora and stream beats ----
    link_pc,           \* position in _add_aurora
    rx_sink_layout,    \* layout of k2mm.sink_packet_rx: field -> width
    tx_sink_layout,    \* layout of kyokko.sink_user_tx: field -> width
    comb,              \* stream bindings added to self.comb: set of [src, dst, fields]
    gate_bound,        \* whether kyokko.init_clk_locked.eq(crg.locked) is in self.comb
    sources,           \* last beat driven on each source endpoint: name -> field -> value
    sinks              \* last beat seen by each sink endpoint: name -> bound field -> value

crg_vars  == <<cpu_resetn, rst, pll_locked, pll_reset, locked, ars, ic_reset_counter,
               ic_reset, ic_ready, ic_ready_counter, sys_rst, div_cnt, clk,
               init_clk_locked, kyokko_state>>
clk_vars  == <<crg_pc, sys_clk_freq, clk_freq, rst_drivers, edges, div_phase0>>
link_vars == <<link_pc, rx_sink_layout, tx_sink_layout, comb, gate_bound, sources, sinks>>
crg_rest  == <<cpu_resetn, rst, pll_locked, pll_reset, locked, ars, ic_reset_counter,
               ic_reset, ic_ready, ic_ready_counter, sys_rst, clk,
               init_clk_locked, kyokko_state>>
vars      == <<crg_vars, clk_vars, link_vars>>

(***************************************************************************)
(* Bounds                                                                  *)
(***************************************************************************)
\* USIDELAYCTRL reset_cycles / ready_cycles (scaled down)
ResetCycles == 2
ReadyCycles == 2
\* number of cd_pll4x edges counted in SpecClk
MaxPllEdges == 9

(***************************************************************************)
(* _CRG: combinational assignments and primitives                          *)
(***************************************************************************)
\* BUFGCE_DIV p_BUFGCE_DIVIDE
BUFGCE_DIVIDE == 4

\* pll.reset.eq((~platform.request("cpu_resetn")) | self.rst)
PllReset_NoInvert(resetn, soft) == resetn \/ soft
PllReset(resetn, soft) == (~resetn) \/ soft

\* self.locked.eq(pll.locked)
CrgLocked(pll_lock) == pll_lock

\* AsyncResetSynchronizer(self.cd_clk125, ~self.locked): the async reset source
Clk125AsyncReset_NoInvert(lck) == lck
Clk125AsyncReset(lck) == ~lck

\* pll.create_clkout(self.cd_idelay, 400e6): with_reset defaults to True and
\* adds AsyncResetSynchronizer(cd, ~pll.locked)
IdelayAsyncReset_NoInvert(pll_lock) == pll_lock
IdelayAsyncReset(pll_lock) == ~pll_lock

\* kyokko.init_clk_locked.eq(self.crg.locked)
InitClkLocked_Tied(lck) == TRUE
InitClkLocked(lck) == lck

\* AsyncResetSynchronizer: two flops with asynchronous preset, D of the first
\* tied to 0, the domain's rst taken from the second.
ArsPreset == <<TRUE, TRUE>>
ArsAsync(ff, async_reset) == IF async_reset THEN ArsPreset ELSE ff
ArsEdge(ff, async_reset) == IF async_reset THEN ArsPreset ELSE <<FALSE, ff[1]>>
ArsRst(ff) == ff[2]

\* The reset of each domain with a managed reset.
Rst(d) == IF d = "sys" THEN sys_rst ELSE ArsRst(ars[d])

\* BUFGCE_DIV: one output edge every BUFGCE_DIVIDE input edges.
DivNext(c) == (c + 1) % BUFGCE_DIVIDE
DivEdge(c) == c + 1 = BUFGCE_DIVIDE

Toggle(c, d) == [c EXCEPT ![d] = 1 - c[d]]

ManagedDomains   == {"sys", "clk125", "idelay"}
ResetLessDomains == {"sys4x", "pll4x"}
Domains          == ManagedDomains \cup ResetLessDomains

(***************************************************************************)
(* _CRG at run time                                                        *)
(***************************************************************************)
\* Link-initialization state machine of the transceiver: idle while its
\* init_clk_locked input is low, and it advances on edges of its free-running
\* clock (cd_freerun = "clk125") once the input is high.
KyokkoStep(state, gate) ==
    IF ~gate THEN {"idle"}
    ELSE IF state = "idle" THEN {"training"}
    ELSE {state, "up"}
KyokkoGate(state, gate) == IF gate THEN state ELSE "idle"

\* Re-evaluation of the combinational and asynchronous part of the netlist
\* from the new inputs and register values.
Settle(resetn, soft, plk, ff, icr, rdy, ky) ==
    /\ cpu_resetn' = resetn
    /\ rst' = soft
    /\ pll_reset' = PllReset(resetn, soft)
    /\ pll_locked' = (plk /\ ~pll_reset')
    /\ locked' = CrgLocked(pll_locked')
    /\ ars' = [clk125 |-> ArsAsync(ff.clk125, Clk125AsyncReset(locked')),
               idelay |-> ArsAsync(ff.idelay, IdelayAsyncReset(pll_locked')),
               ic     |-> ArsAsync(ff.ic, icr)]
    /\ ic_reset' = icr
    /\ ic_ready' = (rdy /\ ~icr)
    /\ init_clk_locked' = InitClkLocked(locked')
    /\ kyokko_state' = KyokkoGate(ky, init_clk_locked')

CrgInit ==
    /\ cpu_resetn \in BOOLEAN
    /\ rst = FALSE
    /\ pll_locked = FALSE
    /\ pll_reset = PllReset(cpu_resetn, rst)
    /\ locked = CrgLocked(pll_locked)
    /\ ars = [clk125 |-> ArsPreset, idelay |-> ArsPreset, ic |-> ArsPreset]
    /\ ic_reset_counter = ResetCycles - 1
    /\ ic_reset = TRUE
    /\ ic_ready = FALSE
    /\ ic_ready_counter = ReadyCycles - 1
    /\ sys_rst = TRUE
    /\ div_cnt \in 0..(BUFGCE_DIVIDE - 1)
    /\ clk = [d \in {"clk125", "idelay", "sys"} |-> 0]
    /\ init_clk_locked = InitClkLocked(locked)
    /\ kyokko_state = "idle"

\* The board drives cpu_resetn.
SetCpuResetn ==
    /\ \E v \in BOOLEAN :
         /\ v # cpu_resetn
         /\ Settle(v, rst, pll_locked, ars, ic_reset, ic_ready, kyokko_state)
    /\ UNCHANGED <<ic_reset_counter, ic_ready_counter, sys_rst, div_cnt, clk>>

\* The SoC drives _CRG.rst.
SetRst ==
    /\ \E v \in BOOLEAN :
         /\ v # rst
         /\ Settle(cpu_resetn, v, pll_locked, ars, ic_reset, ic_ready, kyokko_state)
    /\ UNCHANGED <<ic_reset_counter, ic_ready_counter, sys_rst, div_cnt, clk>>

\* The PLL acquires lock; it cannot while its reset is asserted.
PllLock ==
    /\ ~pll_reset
    /\ ~pll_locked
    /\ Settle(cpu_resetn, rst, TRUE, ars, ic_reset, ic_ready, kyokko_state)
    /\ UNCHANGED <<ic_reset_counter, ic_ready_counter, sys_rst, div_cnt, clk>>

\* The PLL loses lock during operation.
PllLoseLock ==
    /\ pll_locked
    /\ Settle(cpu_resetn, rst, FALSE, ars, ic_reset, ic_ready, kyokko_state)
    /\ UNCHANGED <<ic_reset_counter, ic_ready_counter, sys_rst, div_cnt, clk>>

\* IDELAYCTRL reports ready; RDY is low while its RST (ic_reset) is asserted.
IdelayctrlReady ==
    /\ ~ic_reset
    /\ ~ic_ready
    /\ Settle(cpu_resetn, rst, pll_locked, ars, ic_reset, TRUE, kyokko_state)
    /\ UNCHANGED <<ic_reset_counter, ic_ready_counter, sys_rst, div_cnt, clk>>

\* An edge of cd_clk125.clk (clk125_bufgce).
TickClk125 ==
    /\ clk' = Toggle(clk, "clk125")
    /\ \E ky \in KyokkoStep(kyokko_state, init_clk_locked) :
         Settle(cpu_resetn, rst, pll_locked,
                [ars EXCEPT !.clk125 = ArsEdge(@, Clk125AsyncReset(locked))],
                ic_reset, ic_ready, ky)
    /\ UNCHANGED <<ic_reset_counter, ic_ready_counter, sys_rst, div_cnt>>

\* An edge of cd_idelay.clk: the synchronizer of cd_idelay and the cd_idelay
\* registers of USIDELAYCTRL (synchronous reset by cd_idelay.rst).
TickIdelay ==
    /\ clk' = Toggle(clk, "idelay")
    /\ ic_reset_counter' =
         IF ArsRst(ars.idelay) THEN ResetCycles - 1
         ELSE IF ic_reset_counter # 0 THEN ic_reset_counter - 1
         ELSE ic_reset_counter
    /\ LET icr == IF ArsRst(ars.idelay) THEN TRUE
                  ELSE IF ic_reset_counter # 0 THEN ic_reset
                  ELSE FALSE
       IN Settle(cpu_resetn, rst, pll_locked,
                 [ars EXCEPT !.idelay = ArsEdge(@, IdelayAsyncReset(pll_locked))],
                 icr, ic_ready, kyokko_state)
    /\ UNCHANGED <<ic_ready_counter, sys_rst, div_cnt>>

\* The cd_ic registers of USIDELAYCTRL on an edge of cd_sys.clk (synchronous
\* reset by cd_ic.rst; cd_sys.rst resets to 1).
SysRstNext ==
    IF ArsRst(ars.ic) THEN TRUE
    ELSE IF ic_ready /\ ic_ready_counter = 0 THEN FALSE
    ELSE sys_rst
ReadyCounterNext ==
    IF ArsRst(ars.ic) THEN ReadyCycles - 1
    ELSE IF ic_ready /\ ic_ready_counter # 0 THEN ic_ready_counter - 1
    ELSE ic_ready_counter

\* An edge of cd_pll4x.clk; every BUFGCE_DIVIDE-th one is an edge of cd_sys.clk.
TickPll4x ==
    /\ div_cnt' = DivNext(div_cnt)
    /\ IF DivEdge(div_cnt)
       THEN /\ clk' = Toggle(clk, "sys")
            /\ sys_rst' = SysRstNext
            /\ ic_ready_counter' = ReadyCounterNext
            /\ Settle(cpu_resetn, rst, pll_locked,
                      [ars EXCEPT !.ic = ArsEdge(@, ic_reset)],
                      ic_reset, ic_ready, kyokko_state)
       ELSE /\ UNCHANGED <<clk, sys_rst, ic_ready_counter>>
            /\ Settle(cpu_resetn, rst, pll_locked, ars, ic_reset, ic_ready, kyokko_state)
    /\ UNCHANGED ic_reset_counter


(***************************************************************************)
(* _CRG.__init__: elaboration, then the clock edges the buffers produce    *)
(***************************************************************************)
\* --sys-clk-freq after int(float(...)): an integer number of Hz
SysClkFreqs == {100000000, 125000000, 150000000, 200000000, 200000001}
IDELAY_FREQ == 400000000
CLK125_FREQ == 125000000

\* ClockDomain(reset_less=...) of each domain declared by _CRG
ResetLess(d) == d \in {"sys4x", "pll4x"}

\* pll.create_clkout(self.cd_pll4x, sys_clk_freq*4, buf=None, with_reset=False)
Pll4xFreq_Times2(f) == f * 2
Pll4xFreq(f) == f * 4
Pll4xWithReset_Default == TRUE
Pll4xWithReset == FALSE
\* pll.create_clkout(self.cd_idelay, 400e6): with_reset keeps its default
IdelayWithReset == TRUE

\* create_clkout: the reset driver it adds to the domain
ClkoutRstDrivers(d, with_reset) ==
    IF with_reset THEN {<<"AsyncResetSynchronizer", "pll.locked", d>>} ELSE {}

\* Instance("BUFGCE_DIV", p_BUFGCE_DIVIDE=4, i_I=cd_pll4x.clk, o_O=cd_sys.clk)
BufgceDivFreq(f) == f \div BUFGCE_DIVIDE

ClkInit ==
    /\ crg_pc = "start"
    /\ sys_clk_freq \in SysClkFreqs
    /\ clk_freq = [d \in Domains |-> 0]
    /\ rst_drivers = [d \in Domains |-> {}]
    /\ edges = [d \in {"pll4x", "sys4x", "sys"} |-> 0]
    /\ div_phase0 = div_cnt

\* lines 44-45: the two PLL outputs
CreateClkouts ==
    /\ crg_pc = "start"
    /\ crg_pc' = "clkouts"
    /\ clk_freq' = [clk_freq EXCEPT !.pll4x = Pll4xFreq(sys_clk_freq),
                                    !.idelay = IDELAY_FREQ]
    /\ rst_drivers' = [rst_drivers EXCEPT
                         !.pll4x  = @ \cup ClkoutRstDrivers("pll4x", Pll4xWithReset),
                         !.idelay = @ \cup ClkoutRstDrivers("idelay", IdelayWithReset)]
    /\ UNCHANGED <<sys_clk_freq, edges, div_phase0>>

\* lines 53-62: the clock buffers and the synchronizer of cd_clk125
AddSpecials ==
    /\ crg_pc = "clkouts"
    /\ crg_pc' = "specials"
    /\ clk_freq' = [clk_freq EXCEPT !.sys = BufgceDivFreq(clk_freq.pll4x),
                                    !.sys4x = clk_freq.pll4x,
                                    !.clk125 = CLK125_FREQ]
    /\ rst_drivers' = [rst_drivers EXCEPT
                         !.clk125 = @ \cup {<<"AsyncResetSynchronizer", "locked", "clk125">>}]
    /\ UNCHANGED <<sys_clk_freq, edges, div_phase0>>

\* line 64: USIDELAYCTRL(cd_ref=cd_idelay, cd_sys=cd_sys) drives cd_sys.rst
AddIdelayctrl ==
    /\ crg_pc = "specials"
    /\ crg_pc' = "done"
    /\ rst_drivers' = [rst_drivers EXCEPT !.sys = @ \cup {<<"USIDELAYCTRL", "cd_ic", "sys">>}]
    /\ UNCHANGED <<sys_clk_freq, clk_freq, edges, div_phase0>>

\* An edge of cd_pll4x.clk seen through main_bufgce (cd_sys4x) and
\* main_bufgce_div (cd_sys).
EdgePll4x ==
    /\ crg_pc = "done"
    /\ edges.pll4x < MaxPllEdges
    /\ div_cnt' = DivNext(div_cnt)
    /\ edges' = [edges EXCEPT !.pll4x = @ + 1,
                              !.sys4x = @ + 1,
                              !.sys = IF DivEdge(div_cnt) THEN @ + 1 ELSE @]
    /\ UNCHANGED <<crg_pc, sys_clk_freq, clk_freq, rst_drivers, div_phase0>>


(***************************************************************************)
(* BaseSoC._add_aurora: stream bindings                                    *)
(***************************************************************************)
\* payload width of the streams (K2MM(dw=256), scaled down)
PayloadWidth == 2

\* omit=... of the two data-plane connect() calls
OmitSet_NoLength == {"last_be", "error", "src_port", "dst_port", "ip_address"}
OmitSet == {"last_be", "error", "src_port", "dst_port", "ip_address", "length"}
\* source_ctrl.connect(sink_tester_ctrl): no omit argument
CtrlOmit == {}

\* Data-plane stream vocabulary of the transceiver and of the packet core's
\* egress, and the control-packet vocabulary.
Vocabulary ==
    {"payload", "sof", "eof", "byte_valid",
     "last_be", "error", "src_port", "dst_port", "ip_address", "length"}
SourceLayout == [f \in Vocabulary |-> IF f = "payload" THEN PayloadWidth ELSE 1]
CoreFields == {"payload", "sof", "eof", "byte_valid"}
CoreLayout == [f \in CoreFields |-> SourceLayout[f]]
CtrlLayout == [f \in {"ctrl_payload", "ctrl_valid"} |-> IF f = "ctrl_payload" THEN PayloadWidth ELSE 1]

\* Layouts a consumer may declare: the matching one, payload one bit narrower
\* or wider, end-of-frame under another name, and an extra field.
SinkLayouts ==
    { CoreLayout,
      [CoreLayout EXCEPT !["payload"] = PayloadWidth - 1],
      [CoreLayout EXCEPT !["payload"] = PayloadWidth + 1],
      [f \in {"payload", "sof", "last", "byte_valid"} |-> IF f = "payload" THEN PayloadWidth ELSE 1],
      [f \in CoreFields \cup {"length"} |-> IF f = "payload" THEN PayloadWidth ELSE 2],
      SourceLayout }

Pow2(n) == IF n = 0 THEN 1 ELSE IF n = 1 THEN 2 ELSE IF n = 2 THEN 4 ELSE IF n = 3 THEN 8 ELSE 16

\* Signal.eq(): the value is cut to the width of the target, no width check.
Assign(v, width) == v % Pow2(width)

\* Record.connect(slave, omit=...): every field of the producer's layout that
\* is not omitted is looked up by name on the consumer (getattr) and assigned;
\* a missing name raises AttributeError.
Connect(src_layout, dst_layout, omit) ==
    LET keep == (DOMAIN src_layout) \ omit
    IN [ok |-> keep \subseteq DOMAIN dst_layout, fields |-> keep]

\* Consumer of the control-plane binding (line 149)
CtrlSink_DataIngress == "sink_packet_rx"
CtrlSink == "sink_tester_ctrl"

SinkLayout(name) ==
    IF name = "sink_packet_rx" THEN rx_sink_layout
    ELSE IF name = "sink_user_tx" THEN tx_sink_layout
    ELSE CtrlLayout

Zero(fields) == [f \in fields |-> 0]
SinkNames == {"sink_packet_rx", "sink_user_tx", "sink_tester_ctrl"}

LinkInit ==
    /\ link_pc = "start"
    /\ rx_sink_layout \in SinkLayouts
    /\ tx_sink_layout \in SinkLayouts
    /\ comb = {}
    /\ gate_bound = FALSE
    /\ sources = [source_user_rx |-> Zero(Vocabulary),
                  source_packet_tx |-> Zero(Vocabulary),
                  source_ctrl |-> Zero(DOMAIN CtrlLayout)]
    /\ sinks = [n \in SinkNames |-> Zero({})]

\* lines 143-147: the list is built first (both connect() calls run), then
\* added to self.comb; an exception in either call leaves self.comb as it was.
AddAuroraData_Partial(rx, tx) ==
    IF rx.ok /\ tx.ok
    THEN /\ comb' = comb \cup
                {[src |-> "source_user_rx", dst |-> "sink_packet_rx", fields |-> rx.fields],
                 [src |-> "source_packet_tx", dst |-> "sink_user_tx", fields |-> tx.fields]}
         /\ gate_bound' = TRUE
         /\ link_pc' = "data"
    ELSE /\ comb' = IF rx.ok
                    THEN comb \cup {[src |-> "source_user_rx", dst |-> "sink_packet_rx",
                                     fields |-> rx.fields]}
                    ELSE comb
         /\ gate_bound' = TRUE
         /\ link_pc' = "error"
AddAuroraDataStep(rx, tx) ==
    IF rx.ok /\ tx.ok
    THEN /\ comb' = comb \cup
                {[src |-> "source_user_rx", dst |-> "sink_packet_rx", fields |-> rx.fields],
                 [src |-> "source_packet_tx", dst |-> "sink_user_tx", fields |-> tx.fields]}
         /\ gate_bound' = TRUE
         /\ link_pc' = "data"
    ELSE /\ UNCHANGED <<comb, gate_bound>>
         /\ link_pc' = "error"

AddAuroraData ==
    /\ link_pc = "start"
    /\ AddAuroraDataStep(Connect(SourceLayout, rx_sink_layout, OmitSet),
                         Connect(SourceLayout, tx_sink_layout, OmitSet))
    /\ UNCHANGED <<rx_sink_layout, tx_sink_layout, sources, sinks>>

\* lines 148-149: the control-plane binding
AddAuroraCtrl ==
    /\ link_pc = "data"
    /\ LET c == Connect(CtrlLayout, SinkLayout(CtrlSink), CtrlOmit)
       IN IF c.ok
          THEN /\ comb' = comb \cup {[src |-> "source_ctrl", dst |-> CtrlSink, fields |-> c.fields]}
               /\ link_pc' = "done"
          ELSE /\ UNCHANGED comb
               /\ link_pc' = "error"
    /\ sinks' = [n \in SinkNames |->
                   Zero(UNION {b.fields : b \in {x \in comb' : x.dst = n}})]
    /\ UNCHANGED <<rx_sink_layout, tx_sink_layout, gate_bound, sources>>

\* What a sink sees when source `s` drives beat `b`: the bound fields only.
Deliver(s, b, n) ==
    LET into == {x \in comb : x.src = s /\ x.dst = n}
    IN IF into = {} THEN sinks[n]
       ELSE [f \in DOMAIN sinks[n] |->
               IF \E x \in into : f \in x.fields
               THEN Assign(b[f], SinkLayout(n)[f])
               ELSE sinks[n][f]]

\* Beats a producer may present: payload zero, one or all ones; the other
\* kept fields all q; the omitted fields all m.
PayloadValues == {0, 1, Pow2(PayloadWidth) - 1}
DataBeats ==
    { [f \in Vocabulary |-> IF f = "payload" THEN p ELSE IF f \in CoreFields THEN q ELSE m] :
        p \in PayloadValues, q \in 0..1, m \in 0..1 }
CtrlBeats ==
    { [f \in DOMAIN CtrlLayout |-> IF f = "ctrl_payload" THEN p ELSE q] :
        p \in PayloadValues, q \in 0..1 }

Beat(s, b) ==
    /\ link_pc = "done"
    /\ sources' = [sources EXCEPT ![s] = b]
    /\ sinks' = [n \in SinkNames |-> Deliver(s, b, n)]
    /\ UNCHANGED <<link_pc, rx_sink_layout, tx_sink_layout, comb, gate_bound>>

\* kyokko.source_user_rx presents a beat
RxBeat == \E b \in DataBeats : Beat("source_user_rx", b)
\* k2mm.source_packet_tx presents a beat
TxBeat == \E b \in DataBeats : Beat("source_packet_tx", b)
\* k2mmctrl_0.source_ctrl presents a beat
CtrlBeat == \E b \in CtrlBeats : Beat("source_ctrl", b)

(***************************************************************************)
(* Specifications.  The three groups of state do not interact (div_cnt is  *)
(* the one shared register); each specification runs one group and holds   *)
(* the others at a fixed value.                                            *)
(***************************************************************************)
CrgFixed ==
    /\ CrgInit
    /\ cpu_resetn = TRUE
ClkFixed ==
    /\ ClkInit
    /\ sys_clk_freq = 200000000
LinkFixed ==
    /\ LinkInit
    /\ rx_sink_layout = CoreLayout
    /\ tx_sink_layout = SourceLayout

FrameCrg  == UNCHANGED <<clk_vars, link_vars>>
FrameClk  == UNCHANGED <<crg_rest, link_vars>>
FrameLink == UNCHANGED <<crg_vars, clk_vars>>

Init == CrgInit /\ ClkFixed /\ LinkFixed

Next ==
    \/ SetCpuResetn /\ FrameCrg
    \/ SetRst /\ FrameCrg
    \/ PllLock /\ FrameCrg
    \/ PllLoseLock /\ FrameCrg
    \/ IdelayctrlReady /\ FrameCrg
    \/ TickClk125 /\ FrameCrg
    \/ TickIdelay /\ FrameCrg
    \/ TickPll4x /\ FrameCrg

\* The run-time reset network of _CRG.
Spec == Init /\ [][Next]_vars

\* The same with every clock ticking again and again, and the IDELAYCTRL
\* primitive reporting ready once released.
LiveSpec ==
    /\ Spec
    /\ WF_vars(TickClk125 /\ FrameCrg)
    /\ WF_vars(TickIdelay /\ FrameCrg)
    /\ WF_vars(TickPll4x /\ FrameCrg)
    /\ WF_vars(IdelayctrlReady /\ FrameCrg)

ClkSpecInit == CrgFixed /\ ClkInit /\ LinkFixed

ClkNext ==
    \/ CreateClkouts /\ UNCHANGED div_cnt /\ FrameClk
    \/ AddSpecials /\ UNCHANGED div_cnt /\ FrameClk
    \/ AddIdelayctrl /\ UNCHANGED div_cnt /\ FrameClk
    \/ EdgePll4x /\ FrameClk

\* Elaboration of _CRG.__init__, then clock edges.
SpecClk == ClkSpecInit /\ [][ClkNext]_vars

LinkSpecInit == CrgFixed /\ div_cnt = 0 /\ ClkFixed /\ LinkInit

LinkNext ==
    \/ AddAuroraData /\ FrameLink
    \/ AddAuroraCtrl /\ FrameLink
    \/ RxBeat /\ FrameLink
    \/ TxBeat /\ FrameLink
    \/ CtrlBeat /\ FrameLink

\* Elaboration of _add_aurora, then stream beats.
SpecLink == LinkSpecInit /\ [][LinkNext]_vars

(***************************************************************************)
(* Properties                                                              *)
(***************************************************************************)
AsyncDomains == {"clk125", "idelay"}

C2_LinkGated ==
    /\ [](init_clk_locked = locked)
    /\ [](~pll_locked => kyokko_state = "idle")
    /\ [](pll_reset => kyokko_state = "idle")
    /\ [][(kyokko_state = "idle" /\ kyokko_state' # "idle") => (locked /\ locked')]_vars

\* The external reset is asserted after the link had come up: lock is gone
\* and the link is back in idle.
C2_Witness == ~cpu_resetn /\ ~locked /\ kyokko_state = "idle" /\ ~sys_rst /\ clk.clk125 = 1

\* C5: pll.reset is, in every state, the OR of the inverted cpu_resetn and the
\* soft reset request, whatever the lock signal does.
C5_PllReset ==
    /\ pll_reset = ((~cpu_resetn) \/ rst)
    /\ ((~cpu_resetn) => pll_reset)
    /\ (rst => pll_reset)
    /\ (pll_reset => (~cpu_resetn \/ rst))

\* Lock has been lost during operation with no reset requested: the PLL is
\* not in reset.
C5_Witness == cpu_resetn /\ ~rst /\ ~pll_locked /\ ~pll_reset /\ ~sys_rst

C6_ExactRatio ==
    /\ crg_pc \in {"clkouts", "specials", "done"} => clk_freq.pll4x = 4 * sys_clk_freq
    /\ crg_pc \in {"specials", "done"} =>
         /\ clk_freq.sys = sys_clk_freq
         /\ 4 * clk_freq.sys = clk_freq.pll4x
         /\ clk_freq.sys4x = clk_freq.pll4x
    /\ edges.sys4x = edges.pll4x
    /\ 4 * edges.sys + div_cnt = edges.pll4x + div_phase0

\* An odd frequency, and two cd_sys edges out of eight cd_pll4x edges.
C6_Witness ==
    /\ crg_pc = "done"
    /\ sys_clk_freq = 200000001
    /\ clk_freq.sys = 200000001
    /\ edges.pll4x = 8
    /\ edges.sys = 2

\* C8: in the elaborated _CRG every domain declared without reset_less has
\* exactly one driver of its reset and the reset-less domains have none; no
\* domain ever has two.
C8_OneResetSource ==
    /\ \A d \in Domains : Cardinality(rst_drivers[d]) <= 1
    /\ \A d \in Domains : ResetLess(d) => rst_drivers[d] = {}
    /\ crg_pc = "done" =>
         \A d \in Domains : ~ResetLess(d) => Cardinality(rst_drivers[d]) = 1

\* The elaborated _CRG with its clocks running.
C8_Witness ==
    /\ crg_pc = "done"
    /\ edges.sys >= 1
    /\ {d \in Domains : rst_drivers[d] # {}} = {"sys", "clk125", "idelay"}

DataSinks == {"sink_packet_rx", "sink_user_tx"}
KeptFields == {"payload", "sof", "eof", "byte_valid"}

\* C3: in the elaborated design the data-plane bindings are exactly
\* source_user_rx -> sink_packet_rx and source_packet_tx -> sink_user_tx, each
\* carrying the vocabulary minus {last_be, error, src_port, dst_port,
\* ip_address, length}; whatever beats pass, the consumers hold no omitted
\* field, and what they hold comes from the kept fields alone.
C3_OmitSet ==
    link_pc = "done" =>
      /\ {b \in comb : b.dst \in DataSinks \/ b.src \in {"source_user_rx", "source_packet_tx"}} =
           {[src |-> "source_user_rx", dst |-> "sink_packet_rx",
             fields |-> Vocabulary \ {"last_be", "error", "src_port", "dst_port",
                                      "ip_address", "length"}],
            [src |-> "source_packet_tx", dst |-> "sink_user_tx",
             fields |-> Vocabulary \ {"last_be", "error", "src_port", "dst_port",
                                      "ip_address", "length"}]}
      /\ \A n \in DataSinks : DOMAIN sinks[n] = KeptFields

\* A beat whose omitted fields are non-zero has crossed in each direction.
C3_Witness ==
    /\ link_pc = "done"
    /\ sources.source_user_rx["length"] = 1
    /\ sources.source_user_rx["payload"] = 1
    /\ sinks.sink_packet_rx["payload"] = 1
    /\ sources.source_packet_tx["error"] = 1
    /\ sinks.sink_user_tx["sof"] = 1
    /\ "length" \in DOMAIN tx_sink_layout

Mismatch(n) ==
    \E f \in Vocabulary \ OmitSet :
       f \notin DOMAIN SinkLayout(n) \/ SinkLayout(n)[f] # SourceLayout[f]
NameMissing(n) == \E f \in Vocabulary \ OmitSet : f \notin DOMAIN SinkLayout(n)

C7_ControlPath ==
    /\ link_pc = "error" => comb = {}
    /\ link_pc = "done" =>
         /\ {b \in comb : b.src = "source_ctrl" \/ b.dst = "sink_tester_ctrl"} =
              {[src |-> "source_ctrl", dst |-> "sink_tester_ctrl",
                fields |-> DOMAIN CtrlLayout]}
         /\ sinks.sink_tester_ctrl = sources.source_ctrl
         /\ ENABLED (CtrlBeat /\ FrameLink)

\* A control beat has been delivered while data-plane beats were in place in
\* both directions.
C7_Witness ==
    /\ link_pc = "done"
    /\ sources.source_ctrl["ctrl_payload"] = 1
    /\ sinks.sink_tester_ctrl["ctrl_payload"] = 1
    /\ sinks.sink_tester_ctrl["ctrl_valid"] = 1
    /\ sinks.sink_packet_rx["payload"] = 1
    /\ sinks.sink_user_tx["eof"] = 1

====
